---- MODULE Spec2Model ----
(***************************************************************************)
(* The iterator walkthrough of src/src/main.rs as a state machine.          *)
(*                                                                         *)
(* main() is a straight-line script; every step of it that creates a      *)
(* container, creates a view (iter, iter_mut, into_iter), builds a lazy    *)
(* stage (map, filter) or pulls one element is one action.  The script's   *)
(* literal containers are among the inputs; the other inputs are every     *)
(* sequence of at most MaxLen elements of 0..MaxVal, so that each section  *)
(* of the script runs on every small container.  All values stay far       *)
(* inside i32, so no arithmetic of the script can overflow here.           *)
(***************************************************************************)
EXTENDS Integers, Sequences, FiniteSets, TLC

\* ------------------------------------------------------------ bounds
MaxLen == 3
MaxVal == 3
MaxK == 2
MaxExtraPulls == 2
MaxRangeEnd == 4

\* ------------------------------------------------- program constants
\* `*num += 1`
Increment == 1
\* `(1..101)`
RangeStart == 1
RangeEnd == 101
\* `.fold(0, ...)`
FoldInit == 0

\* ----------------------------------------------------------- inputs
Elems == 0..MaxVal

\* vec![1, 2, 3], vec![10, 20, 30], [1, 2, 3, 4, 5]
Literals == { <<1, 2, 3>>, <<10, 20, 30>>, <<1, 2, 3, 4, 5>> }

Containers == (UNION { [1..n -> Elems] : n \in 0..MaxLen }) \cup Literals

Increments == (1..MaxK) \cup {Increment}

RangeEnds == (RangeStart..MaxRangeEnd) \cup {RangeEnd - 1, RangeEnd}

\* ------------------------------------------------------ Option<T>
None == << >>
Some(x) == <<x>>

\* ------------------------------------------------------------ state
VARIABLES
    pc,          \* the line of main() about to run
    cont,        \* contents of the container the current section works on
    orig,        \* contents of that container when it was constructed
    idx,         \* elements the current view has pulled from its source
    out,         \* what the current loop has yielded, or collect() has gathered
    acc,         \* accumulator of fold / reduce
    reduced,     \* the Option<i32> that reduce() returned
    calls,       \* invocations of the current stage's closure
    views,       \* the views in scope: [on, mode, at]
    moved,       \* the current container binding has been moved out of
    useAfterMove,\* a moved binding has been used
    shown,       \* what println!("{:?}", numbers) displayed
    k,           \* the constant the iter_mut loop adds
    rng          \* the Range<i32> of the reduce example: [start, end]

vars == <<pc, cont, orig, idx, out, acc, reduced, calls, views, moved,
          useAfterMove, shown, k, rng>>

\* ------------------------------------------------- slice::Iter::next
\* next() on a view that has pulled i elements of s.
MutCyclicNextItem(s, i) ==
    IF i < Len(s) THEN Some(s[i + 1])
    ELSE IF Len(s) > 0 THEN Some(s[1]) ELSE None

NextItem(s, i) ==
    IF i < Len(s) THEN Some(s[i + 1]) ELSE None

NextPos(s, i) ==
    IF i < Len(s) THEN i + 1 ELSE i

\* ------------------------------------------------ the three closures
MutDouble(x) == x + x

\* |&x| x * x
Square(x) == x * x

\* |&x| x % 2 == 0
IsEven(x) == x % 2 = 0

MutOverwrite(a, x) == x

\* |acc, &x| acc + x   and   |acc, e: i32| acc + e
Add(a, x) == a + x

\* --------------------------------------------------- Filter::next
\* Pulls from the input until the predicate holds or the input is
\* exhausted: the new position, the item, and the predicate's invocations.
MutFilterNext(s, i) ==
    IF i < Len(s) /\ IsEven(s[i + 1])
    THEN [pos |-> i + 1, item |-> Some(s[i + 1]), tested |-> 1]
    ELSE [pos |-> Len(s), item |-> None, tested |-> Len(s) - i]

RECURSIVE FilterNext(_, _)
FilterNext(s, i) ==
    IF i >= Len(s)
    THEN [pos |-> i, item |-> None, tested |-> 0]
    ELSE IF IsEven(s[i + 1])
         THEN [pos |-> i + 1, item |-> Some(s[i + 1]), tested |-> 1]
         ELSE LET r == FilterNext(s, i + 1)
              IN  [pos |-> r.pos, item |-> r.item, tested |-> r.tested + 1]

\* --------------------------------------------------- Range::next
RangeNextItem(r) ==
    IF r.start < r.end THEN Some(r.start) ELSE None

RangeAdvance(r) ==
    IF r.start < r.end THEN [r EXCEPT !.start = @ + 1] ELSE r

\* ----------------------------------------------------------- views
BorrowView(c, at) == [on |-> c, mode |-> "ReadOnly", at |-> at]

MutableView(c, at) == [on |-> c, mode |-> "Exclusive", at |-> at]

OwningView(c, at) == [on |-> c, mode |-> "Owning", at |-> at]

\* `*num += 1` through the exclusive reference to element i
MutAddAssignFirst(s, i, d) == [s EXCEPT ![1] = @ + d]

AddAssign(s, i, d) == [s EXCEPT ![i] = @ + d]

\* A use of the current container binding (a borrow, a move, a print).
UseBinding == useAfterMove' = (useAfterMove \/ moved)

\* `let v = vec![...]`: a fresh container, nothing pulled or produced yet.
NewContainer(c) ==
    /\ cont' = c
    /\ orig' = c
    /\ idx' = 0
    /\ out' = << >>
    /\ calls' = 0
    /\ moved' = FALSE
    /\ shown' = << >>

Init ==
    /\ pc = "L15"
    /\ cont = << >>
    /\ orig = << >>
    /\ idx = 0
    /\ out = << >>
    /\ acc = 0
    /\ reduced = None
    /\ calls = 0
    /\ views = {}
    /\ moved = FALSE
    /\ useAfterMove = FALSE
    /\ shown = << >>
    /\ k = Increment
    /\ rng = [start |-> 0, end |-> 0]

\* ================================================= example 1: for over iter()
\* let v1 = vec![1, 2, 3];
Ex1Let ==
    /\ pc = "L15"
    /\ \E c \in Containers : NewContainer(c)
    /\ pc' = "L17"
    /\ UNCHANGED <<acc, reduced, views, useAfterMove, k, rng>>

\* let v1_iter = v1.iter();
Ex1Iter ==
    /\ pc = "L17"
    /\ UseBinding
    /\ views' = views \cup {BorrowView("v1_15", 17)}
    /\ idx' = 0
    /\ pc' = "L19"
    /\ UNCHANGED <<cont, orig, out, acc, reduced, calls, moved, shown, k, rng>>

\* for val in v1_iter { println!("Got: {}", val); }
\* The loop calls next() until it returns None; the loop owns the view and
\* drops it when it ends.
Ex1For ==
    /\ pc = "L19"
    /\ LET r == NextItem(cont, idx)
       IN  /\ idx' = NextPos(cont, idx)
           /\ IF r # None
              THEN /\ out' = Append(out, r[1])
                   /\ UNCHANGED <<pc, views>>
              ELSE /\ views' = views \ {BorrowView("v1_15", 17)}
                   /\ pc' = "L24"
                   /\ UNCHANGED out
    /\ UNCHANGED <<cont, orig, acc, reduced, calls, moved, useAfterMove,
                   shown, k, rng>>

\* ============================================ example 2: next() by hand
\* let v1 = vec![10, 20, 30];
Ex2Let ==
    /\ pc = "L24"
    /\ \E c \in Containers : NewContainer(c)
    /\ pc' = "L26"
    /\ UNCHANGED <<acc, reduced, views, useAfterMove, k, rng>>

\* let mut v1_iter = v1.iter();   (in scope until main returns)
Ex2Iter ==
    /\ pc = "L26"
    /\ UseBinding
    /\ views' = views \cup {BorrowView("v1_24", 26)}
    /\ idx' = 0
    /\ pc' = "L28"
    /\ UNCHANGED <<cont, orig, out, acc, reduced, calls, moved, shown, k, rng>>

\* What the four assert_eq! of the script expect of vec![10, 20, 30].
Asserted == << Some(10), Some(20), Some(30), None >>

\* assert_eq!(v1_iter.next(), ...): one call of next(); here out holds the
\* Option each call returned.  The script calls next() once more than the
\* container has elements; up to MaxExtraPulls calls past the last element
\* are made here.  A failed assert_eq! panics.
Ex2Next ==
    /\ pc = "L28"
    /\ Len(out) < Len(cont) + MaxExtraPulls
    /\ LET r == NextItem(cont, idx)
           n == Len(out) + 1
       IN  /\ out' = Append(out, r)
           /\ idx' = NextPos(cont, idx)
           /\ IF orig = <<10, 20, 30>> /\ n <= Len(Asserted) /\ r # Asserted[n]
              THEN pc' = "assert_failed"
              ELSE pc' = "L28"
    /\ UNCHANGED <<cont, orig, acc, reduced, calls, views, moved,
                   useAfterMove, shown, k, rng>>

\* The calls end once next() has returned None.
Ex2End ==
    /\ pc = "L28"
    /\ Len(out) > Len(cont)
    /\ pc' = "L41"
    /\ UNCHANGED <<cont, orig, idx, out, acc, reduced, calls, views, moved,
                   useAfterMove, shown, k, rng>>

\* ==================================================== 1. iter()
\* let numbers = vec![1, 2, 3];
Ex3Let ==
    /\ pc = "L41"
    /\ \E c \in Containers : NewContainer(c)
    /\ pc' = "L43"
    /\ UNCHANGED <<acc, reduced, views, useAfterMove, k, rng>>

\* for num in numbers.iter()   (the loop head creates the view)
Ex3Iter ==
    /\ pc = "L43"
    /\ UseBinding
    /\ views' = views \cup {BorrowView("numbers_41", 43)}
    /\ idx' = 0
    /\ pc' = "L44"
    /\ UNCHANGED <<cont, orig, out, acc, reduced, calls, moved, shown, k, rng>>

\* A loop that drains the container it walks, as into_iter() would.
MutEx3ForDrains ==
    /\ pc = "L44"
    /\ IF cont # << >>
       THEN /\ out' = Append(out, Head(cont))
            /\ cont' = Tail(cont)
            /\ idx' = idx + 1
            /\ UNCHANGED <<pc, views>>
       ELSE /\ views' = views \ {BorrowView("numbers_41", 43)}
            /\ pc' = "L47"
            /\ UNCHANGED <<cont, idx, out>>
    /\ UNCHANGED <<orig, acc, reduced, calls, moved, useAfterMove,
                   shown, k, rng>>

\* { println!("Got: {}", num); }
Ex3For ==
    /\ pc = "L44"
    /\ LET r == NextItem(cont, idx)
       IN  /\ idx' = NextPos(cont, idx)
           /\ IF r # None
              THEN /\ out' = Append(out, r[1])
                   /\ UNCHANGED <<pc, views>>
              ELSE /\ views' = views \ {BorrowView("numbers_41", 43)}
                   /\ pc' = "L47"
                   /\ UNCHANGED out
    /\ UNCHANGED <<cont, orig, acc, reduced, calls, moved, useAfterMove,
                   shown, k, rng>>

\* println!(".iter()"); println!("{:?}", numbers);
Ex3Print ==
    /\ pc = "L47"
    /\ UseBinding
    /\ shown' = cont
    /\ pc' = "L56"
    /\ UNCHANGED <<cont, orig, idx, out, acc, reduced, calls, views, moved,
                   k, rng>>

\* ==================================================== 2. iter_mut()
\* let mut numbers: Vec<i32> = vec![1, 2, 3];   with the constant of `+= 1`
Ex4Let ==
    /\ pc = "L56"
    /\ \E c \in Containers : NewContainer(c)
    /\ \E d \in Increments : k' = d
    /\ pc' = "L58"
    /\ UNCHANGED <<acc, reduced, views, useAfterMove, rng>>

\* A loop head that keeps a shared view beside the exclusive one.
MutViewsWithIterMut ==
    views \cup {MutableView("numbers_56", 58), BorrowView("numbers_56", 58)}

ViewsWithIterMut ==
    views \cup {MutableView("numbers_56", 58)}

\* for num in numbers.iter_mut()
Ex4IterMut ==
    /\ pc = "L58"
    /\ UseBinding
    /\ views' = ViewsWithIterMut
    /\ idx' = 0
    /\ pc' = "L59"
    /\ UNCHANGED <<cont, orig, out, acc, reduced, calls, moved, shown, k, rng>>

\* { *num += 1; println!("Got: {}", num); }
Ex4For ==
    /\ pc = "L59"
    /\ LET r == NextItem(cont, idx)
       IN  /\ idx' = NextPos(cont, idx)
           /\ IF r # None
              THEN /\ cont' = AddAssign(cont, idx + 1, k)
                   /\ out' = Append(out, cont'[idx + 1])
                   /\ UNCHANGED <<pc, views>>
              ELSE /\ views' = { v \in views : v.on # "numbers_56" }
                   /\ pc' = "L63"
                   /\ UNCHANGED <<cont, out>>
    /\ UNCHANGED <<orig, acc, reduced, calls, moved, useAfterMove,
                   shown, k, rng>>

\* println!(".iter_mut()"); println!("{:?}", numbers);
Ex4Print ==
    /\ pc = "L63"
    /\ UseBinding
    /\ shown' = cont
    /\ pc' = "L72"
    /\ UNCHANGED <<cont, orig, idx, out, acc, reduced, calls, views, moved,
                   k, rng>>

\* ==================================================== 3. into_iter()
\* let numbers: Vec<i32> = vec![1, 2, 3];
Ex5Let ==
    /\ pc = "L72"
    /\ \E c \in Containers : NewContainer(c)
    /\ k' = Increment
    /\ pc' = "L74"
    /\ UNCHANGED <<acc, reduced, views, useAfterMove, rng>>

\* for num in numbers.into_iter()   (numbers is moved into the view)
Ex5IntoIter ==
    /\ pc = "L74"
    /\ UseBinding
    /\ moved' = TRUE
    /\ views' = views \cup {OwningView("numbers_72", 74)}
    /\ idx' = 0
    /\ pc' = "L75"
    /\ UNCHANGED <<cont, orig, out, acc, reduced, calls, shown, k, rng>>

\* vec::IntoIter::next: the element at the front is moved out to the caller.
MutTakeBack(s) == [item |-> s[Len(s)], rest |-> SubSeq(s, 1, Len(s) - 1)]

TakeFront(s) == [item |-> Head(s), rest |-> Tail(s)]

\* { println!("Got: {}", num); }
\* cont is what the view still holds; the loop's end drops the view and
\* with it the buffer.  Line 78, the use of numbers after the move, is
\* commented out in the script.
Ex5For ==
    /\ pc = "L75"
    /\ IF cont # << >>
       THEN /\ out' = Append(out, TakeFront(cont).item)
            /\ cont' = TakeFront(cont).rest
            /\ idx' = idx + 1
            /\ UNCHANGED <<pc, views>>
       ELSE /\ views' = views \ {OwningView("numbers_72", 74)}
            /\ pc' = "L94"
            /\ UNCHANGED <<cont, idx, out>>
    /\ UNCHANGED <<orig, acc, reduced, calls, moved, useAfterMove,
                   shown, k, rng>>

\* ======================================== map(), filter(), fold(), reduce()
\* let numbers = [1, 2, 3, 4, 5];
Ex6Let ==
    /\ pc = "L94"
    /\ \E c \in Containers : NewContainer(c)
    /\ pc' = "L98"
    /\ UNCHANGED <<acc, reduced, views, useAfterMove, k, rng>>

\* numbers.iter()
MapIter ==
    /\ pc = "L98"
    /\ UseBinding
    /\ views' = views \cup {BorrowView("numbers_94", 98)}
    /\ idx' = 0
    /\ calls' = 0
    /\ out' = << >>
    /\ pc' = "L99"
    /\ UNCHANGED <<cont, orig, acc, reduced, moved, shown, k, rng>>

\* A map() that runs its closure over the whole input when it is built.
MutMapBuildEager ==
    /\ pc = "L99"
    /\ calls' = Len(cont)
    /\ pc' = "L100"
    /\ UNCHANGED <<cont, orig, idx, out, acc, reduced, views, moved,
                   useAfterMove, shown, k, rng>>

\* .map(|&x| x * x): the stage wraps the view and the closure; nothing runs.
MapBuild ==
    /\ pc = "L99"
    /\ pc' = "L100"
    /\ UNCHANGED <<cont, orig, idx, out, acc, reduced, calls, views, moved,
                   useAfterMove, shown, k, rng>>

\* .collect(): one pull of the map stage per step.  Map::next pulls one
\* element of the input and applies the closure to it.  The temporary view
\* is dropped at the end of the statement.
MapCollect ==
    /\ pc = "L100"
    /\ LET r == NextItem(cont, idx)
       IN  /\ idx' = NextPos(cont, idx)
           /\ IF r # None
              THEN /\ out' = Append(out, Square(r[1]))
                   /\ calls' = calls + 1
                   /\ UNCHANGED <<pc, views>>
              ELSE /\ views' = views \ {BorrowView("numbers_94", 98)}
                   /\ pc' = "L105"
                   /\ UNCHANGED <<out, calls>>
    /\ UNCHANGED <<cont, orig, acc, reduced, moved, useAfterMove,
                   shown, k, rng>>

\* numbers.iter()
FilterIter ==
    /\ pc = "L105"
    /\ UseBinding
    /\ views' = views \cup {BorrowView("numbers_94", 105)}
    /\ idx' = 0
    /\ calls' = 0
    /\ out' = << >>
    /\ pc' = "L106"
    /\ UNCHANGED <<cont, orig, acc, reduced, moved, shown, k, rng>>

\* .filter(|&x| x % 2 == 0): nothing runs.
FilterBuild ==
    /\ pc = "L106"
    /\ pc' = "L107"
    /\ UNCHANGED <<cont, orig, idx, out, acc, reduced, calls, views, moved,
                   useAfterMove, shown, k, rng>>

\* .collect(): one pull of the filter stage per step.
FilterCollect ==
    /\ pc = "L107"
    /\ LET r == FilterNext(cont, idx)
       IN  /\ idx' = r.pos
           /\ calls' = calls + r.tested
           /\ IF r.item # None
              THEN /\ out' = Append(out, r.item[1])
                   /\ UNCHANGED <<pc, views>>
              ELSE /\ views' = views \ {BorrowView("numbers_94", 105)}
                   /\ pc' = "L113"
                   /\ UNCHANGED out
    /\ UNCHANGED <<cont, orig, acc, reduced, moved, useAfterMove,
                   shown, k, rng>>

\* numbers.iter()  with the accumulator of .fold(0, ...) seeded
FoldIter ==
    /\ pc = "L113"
    /\ UseBinding
    /\ views' = views \cup {BorrowView("numbers_94", 113)}
    /\ idx' = 0
    /\ acc' = FoldInit
    /\ pc' = "L114"
    /\ UNCHANGED <<cont, orig, out, reduced, calls, moved, shown, k, rng>>

\* .fold(0, |acc, &x| acc + x): one pull per step; returns at None.
FoldStep ==
    /\ pc = "L114"
    /\ LET r == NextItem(cont, idx)
       IN  /\ idx' = NextPos(cont, idx)
           /\ IF r # None
              THEN /\ acc' = Add(acc, r[1])
                   /\ UNCHANGED <<pc, views>>
              ELSE /\ views' = views \ {BorrowView("numbers_94", 113)}
                   /\ pc' = "L120"
                   /\ UNCHANGED acc
    /\ UNCHANGED <<cont, orig, out, reduced, calls, moved, useAfterMove,
                   shown, k, rng>>

\* (1..101)
RangeNew ==
    /\ pc = "L120"
    /\ \E e \in RangeEnds : rng' = [start |-> RangeStart, end |-> e]
    /\ reduced' = None
    /\ pc' = "reduce"
    /\ UNCHANGED <<cont, orig, idx, out, acc, calls, views, moved,
                   useAfterMove, shown, k>>

\* A reduce that answers an empty range with Some(0), as a fold from 0 would.
MutReduceFirstSeedsZero ==
    /\ pc = "reduce"
    /\ LET r == RangeNextItem(rng)
       IN  /\ rng' = RangeAdvance(rng)
           /\ IF r # None
              THEN /\ acc' = r[1]
                   /\ pc' = "reduce_fold"
                   /\ UNCHANGED reduced
              ELSE /\ reduced' = Some(0)
                   /\ pc' = "unwrap"
                   /\ UNCHANGED acc
    /\ UNCHANGED <<cont, orig, idx, out, calls, views, moved,
                   useAfterMove, shown, k>>

\* .reduce(|acc, e: i32| acc + e): `let first = self.next()?;`
ReduceFirst ==
    /\ pc = "reduce"
    /\ LET r == RangeNextItem(rng)
       IN  /\ rng' = RangeAdvance(rng)
           /\ IF r # None
              THEN /\ acc' = r[1]
                   /\ pc' = "reduce_fold"
                   /\ UNCHANGED reduced
              ELSE /\ reduced' = None
                   /\ pc' = "unwrap"
                   /\ UNCHANGED acc
    /\ UNCHANGED <<cont, orig, idx, out, calls, views, moved,
                   useAfterMove, shown, k>>

\* `Some(self.fold(first, f))`: one pull per step.
ReduceFold ==
    /\ pc = "reduce_fold"
    /\ LET r == RangeNextItem(rng)
       IN  /\ rng' = RangeAdvance(rng)
           /\ IF r # None
              THEN /\ acc' = Add(acc, r[1])
                   /\ UNCHANGED <<pc, reduced>>
              ELSE /\ reduced' = Some(acc)
                   /\ pc' = "unwrap"
                   /\ UNCHANGED acc
    /\ UNCHANGED <<cont, orig, idx, out, calls, views, moved,
                   useAfterMove, shown, k>>

\* .unwrap(): panics on None.
Unwrap ==
    /\ pc = "unwrap"
    /\ pc' = IF reduced = None THEN "unwrap_failed" ELSE "L121"
    /\ UNCHANGED <<cont, orig, idx, out, acc, reduced, calls, views, moved,
                   useAfterMove, shown, k, rng>>

\* println!("Reduced: {}", reduced); and main returns: every local is dropped.
Return ==
    /\ pc = "L121"
    /\ views' = {}
    /\ pc' = "done"
    /\ UNCHANGED <<cont, orig, idx, out, acc, reduced, calls, moved,
                   useAfterMove, shown, k, rng>>

Next ==
    \/ Ex1Let \/ Ex1Iter \/ Ex1For
    \/ Ex2Let \/ Ex2Iter \/ Ex2Next \/ Ex2End
    \/ Ex3Let \/ Ex3Iter \/ Ex3For \/ Ex3Print
    \/ Ex4Let \/ Ex4IterMut \/ Ex4For \/ Ex4Print
    \/ Ex5Let \/ Ex5IntoIter \/ Ex5For
    \/ Ex6Let \/ MapIter \/ MapBuild \/ MapCollect
    \/ FilterIter \/ FilterBuild \/ FilterCollect
    \/ FoldIter \/ FoldStep
    \/ RangeNew \/ ReduceFirst \/ ReduceFold \/ Unwrap \/ Return

Spec == Init /\ [][Next]_vars

\* ============================================================ properties
Even(x) == x % 2 = 0

RECURSIVE SumSeq(_)
SumSeq(s) == IF s = << >> THEN 0 ELSE Head(s) + SumSeq(Tail(s))

\* The sum of the integers a, a+1, ..., b-1 (0 when b <= a).
SumHalfOpen(a, b) ==
    IF b <= a THEN 0 ELSE ((b - 1) * b - (a - 1) * a) \div 2

Prefix(s, n) == SubSeq(s, 1, n)

ReduceReturned == pc \in {"unwrap", "unwrap_failed", "L121", "done"}

\* C1: successive next() calls on a view over C return C[1], ..., C[n] in
\* order and then None on every later call; the view has pulled
\* min(calls, n) elements, so it is exhausted exactly from the call that
\* yields the last element on (at once when n = 0) and stays exhausted;
\* the script's four assert_eq! on [10, 20, 30] never fail; a for loop over
\* a shared view has yielded exactly the first idx elements.
C1_PullProtocol ==
    /\ pc # "assert_failed"
    /\ pc \in {"L28", "L41"} =>
         /\ \A j \in 1..Len(out) :
              out[j] = IF j <= Len(orig) THEN Some(orig[j]) ELSE None
         /\ idx = IF Len(out) < Len(orig) THEN Len(out) ELSE Len(orig)
    /\ pc \in {"L19", "L44"} =>
         /\ idx <= Len(orig)
         /\ out = Prefix(orig, idx)

C1_Witness ==
    /\ pc = "L28"
    /\ orig = <<10, 20, 30>>
    /\ out = << Some(10), Some(20), Some(30), None, None >>
    /\ idx = 3

\* C2 (as amended): reduce returns None exactly when the range is empty
\* and otherwise Some of the sum of the range's elements; only an empty
\* range makes the unwrap fail; over the half-open range 1..101, the
\* numbers 1 through 100, it returns Some(5050).
C2_ReduceRange ==
    /\ ReduceReturned =>
         reduced = IF rng.end <= RangeStart
                   THEN None
                   ELSE Some(SumHalfOpen(RangeStart, rng.end))
    /\ pc = "unwrap_failed" => rng.end <= RangeStart
    /\ (ReduceReturned /\ rng.end = 101) =>
         (reduced = Some(5050) /\ pc # "unwrap_failed")

C2_Witness ==
    /\ pc = "L121"
    /\ rng.end = 101
    /\ reduced = Some(5050)

\* C2 as stated: reduce over the inclusive-exclusive range 1..100 with
\* addition yields 5050.
C2_Original ==
    (ReduceReturned /\ rng.end = 100) => reduced = Some(5050)

\* C3: every container has at most one exclusive or owning view in scope,
\* and no shared view while it has one.
C3_ViewExclusivity ==
    \A c \in { v.on : v \in views } :
        LET W == { v \in views :
                     v.on = c /\ v.mode \in {"Exclusive", "Owning"} }
            R == { v \in views : v.on = c /\ v.mode = "ReadOnly" }
        IN  Cardinality(W) <= 1 /\ (W # {} => R = {})

C3_Witness ==
    /\ \E v \in views : v.mode = "Exclusive" /\ v.on = "numbers_56"
    /\ \E v \in views : v.mode = "ReadOnly"
    /\ idx = 1

\* C4: with the view created and the map or filter stage built, the
\* closure has not run and nothing has been pulled; during collect the
\* closure has run once per input element pulled so far and for no later
\* element (map: one per element collected; filter: the last element
\* tested is the last one yielded); after collect, once per element.
C4_Laziness ==
    /\ pc \in {"L99", "L106"} => (calls = 0 /\ idx = 0 /\ out = << >>)
    /\ pc = "L100" => (calls = idx /\ calls = Len(out))
    /\ pc = "L107" => (calls = idx /\ (idx = 0 \/ Even(cont[idx])))
    /\ pc \in {"L105", "L113"} => calls = Len(cont)

C4_Witness ==
    /\ pc = "L107"
    /\ cont = <<1, 2, 3, 4, 5>>
    /\ out = <<2>>
    /\ calls = 2

\* C5: while and after the iter_mut loop runs, the container keeps its
\* length, exactly the first idx elements are the original ones plus k and
\* the rest are the original ones, idx being the number of pulls that
\* yielded; after the loop every element is its original plus k, and that
\* is what the script prints.
C5_IterMutAddsK ==
    pc \in {"L59", "L63", "L72"} =>
        /\ Len(cont) = Len(orig)
        /\ idx = Len(out)
        /\ \A i \in 1..Len(orig) :
             cont[i] = IF i <= idx THEN orig[i] + k ELSE orig[i]
        /\ pc \in {"L63", "L72"} => idx = Len(orig)
        /\ pc = "L72" => shown = [i \in 1..Len(orig) |-> orig[i] + k]

C5_Witness ==
    /\ pc = "L72"
    /\ orig = <<1, 2, 3>>
    /\ k = 1
    /\ cont = <<2, 3, 4>>

\* C6: the owning view yields the original elements in order, each once;
\* what it still holds is the rest of them, one fewer per pull and none
\* after the loop; the binding is moved when the view is created, and no
\* moved binding is ever used.
C6_IntoIterConsumes ==
    /\ ~useAfterMove
    /\ pc \in {"L75", "L94"} =>
         /\ moved
         /\ out = Prefix(orig, idx)
         /\ cont = SubSeq(orig, idx + 1, Len(orig))
         /\ Len(cont) = Len(orig) - idx
    /\ pc = "L94" => (out = orig /\ cont = << >>)

C6_Witness ==
    /\ pc = "L94"
    /\ moved
    /\ orig = <<1, 2, 3>>
    /\ out = <<1, 2, 3>>

\* C7: creating a shared view and pulling it any number of times leaves
\* the container's contents as constructed and the binding not moved; the
\* elements yielded are the first idx ones, all of them after the loop, and
\* the container the script then prints is the original one.
C7_BorrowLeavesContainer ==
    pc \in {"L44", "L47", "L56"} =>
        /\ cont = orig
        /\ ~moved
        /\ out = Prefix(orig, idx)
        /\ pc \in {"L47", "L56"} => out = orig
        /\ pc = "L56" => shown = orig

C7_Witness ==
    /\ pc = "L56"
    /\ orig = <<1, 2, 3>>
    /\ out = <<1, 2, 3>>
    /\ shown = <<1, 2, 3>>

\* C8: the filter stage has collected exactly the even elements among the
\* input elements pulled so far, in order, and each pull stopped at the
\* element it yielded; after collect the input is exhausted and the result
\* is the subsequence of even elements.
C8_FilterEvens ==
    /\ pc = "L107" =>
         /\ out = SelectSeq(Prefix(cont, idx), Even)
         /\ idx = 0 \/ Even(cont[idx])
    /\ pc = "L113" =>
         /\ idx = Len(cont)
         /\ out = SelectSeq(cont, Even)

C8_Witness ==
    /\ pc = "L113"
    /\ cont = <<1, 2, 3, 4, 5>>
    /\ out = <<2, 4>>

\* C9: the map stage has collected one element per input element pulled,
\* the k-th being the square of the container's k-th; after collect the
\* result has the container's length.
C9_MapSquares ==
    pc \in {"L100", "L105"} =>
        /\ Len(out) = idx
        /\ \A j \in 1..Len(out) : out[j] = cont[j] * cont[j]
        /\ pc = "L105" => Len(out) = Len(cont)

C9_Witness ==
    /\ pc = "L105"
    /\ cont = <<1, 2, 3, 4, 5>>
    /\ out = <<1, 4, 9, 16, 25>>

\* C10: during fold the accumulator is 0 plus the sum of the elements
\* pulled so far; when fold returns the view is exhausted and the result is
\* the sum of the container's elements (0 for an empty one).
C10_FoldSum ==
    /\ pc = "L114" => acc = SumSeq(Prefix(cont, idx))
    /\ pc = "L120" => (idx = Len(cont) /\ acc = SumSeq(cont))

C10_Witness ==
    /\ pc = "L120"
    /\ cont = <<1, 2, 3, 4, 5>>
    /\ acc = 15

====
